---- MODULE Spec2Model ----
(***************************************************************************)
(* Audio Debugger (src/extension.js): three editor commands               *)
(*   audio-debugger.readAloud, audio-debugger.aiDebugging,                 *)
(*   audio-debugger.aiExplanation                                          *)
(* modelled as invocations that suspend at every `await` and resume when   *)
(* the awaited host call (input box, secret store, HTTP post, quick pick)  *)
(* resolves.  One action is the code between two suspension points.        *)
(*                                                                         *)
(* JavaScript strings are TLA+ strings; the editor selection is a          *)
(* sequence of characters (String.prototype.trim needs them) and Str       *)
(* turns it into a string.  A value that may be `undefined` is a sequence  *)
(* of length at most one: << >> is undefined, <<v>> is v.                  *)
(***************************************************************************)
EXTENDS Integers, Sequences, FiniteSets, TLC

\* Number of command invocations that may be in progress at the same time.
NumInv == 2

Invocations == 1..NumInv

----------------------------------------------------------------------------
(* Values the environment (user, editor, remote service) may supply.       *)

Undefined == << >>

Some(v) == <<v>>

\* Editor selections: empty, whitespace-only, and code.
Selections == { << >>, <<" ">>, <<"x">> }

\* What the user may type into the "What issue would you like help
\* debugging?" input box; Undefined is a dismissed box.
QueryInputs == { Undefined, Some(""), Some("q") }

\* What the user may type into the "Enter your OpenAI API Key" input box.
KeyInputs == { Undefined, Some(""), Some("k"), Some("j") }

\* Keys a previous session may have left in the secret store.
Keys == { "k", "j" }

\* Response bodies of the remote service.
Bodies ==
    { [error |-> "invalid"],
      [choices |-> << >>],
      [choices |-> << [message |-> [role |-> "assistant", content |-> "a"]],
                      [message |-> [role |-> "assistant", content |-> "b"]] >>] }

Statuses == { 200, 500 }

\* Outcomes of axios.post: no response at all, or a response.
Replies ==
    { [kind |-> "network"] } \cup
    { [kind |-> "response", status |-> s, data |-> d] : s \in Statuses, d \in Bodies }

\* Items of the quick pick; Undefined is a dismissed pick.
PickInputs == { Undefined, Some("Show Text"), Some("Read Aloud"), Some("Both") }

----------------------------------------------------------------------------
(* Pure helpers.                                                           *)

WhiteSpace == { " ", "\t", "\n" }

RECURSIVE Str(_)
Str(s) == IF s = << >> THEN "" ELSE Head(s) \o Str(Tail(s))

RECURSIVE TrimStart(_)
TrimStart(s) ==
    IF s # << >> /\ Head(s) \in WhiteSpace THEN TrimStart(Tail(s)) ELSE s

RECURSIVE TrimEnd(_)
TrimEnd(s) ==
    IF s # << >> /\ s[Len(s)] \in WhiteSpace
    THEN TrimEnd(SubSeq(s, 1, Len(s) - 1))
    ELSE s

\* String.prototype.trim
Trim(s) == TrimEnd(TrimStart(s))

\* JavaScript truthiness of a string-or-undefined value.
Truthy(v) == v # Undefined /\ v[1] # ""

\* Overwrite the fields of record a that record b names.
Merge(a, b) == [f \in DOMAIN a |-> IF f \in DOMAIN b THEN b[f] ELSE a[f]]

----------------------------------------------------------------------------
(* String literals of the source.                                          *)

NoEditorMsg == "No editor is active"

NoQueryMsg == "No debugging query provided."

NoCodeMsg == "No code selected."

QueryPrompt == "What issue would you like help debugging?"

KeyPrompt == "Enter your OpenAI API Key"

SecretName == "openAIKey"

MissingKeyResult == "Please enter your OpenAI API key."

DebuggingFailure == "Failed to get debugging help from OpenAI."

ExplanationFailure == "Failed to get explanation from OpenAI."

Endpoint == "https://api.openai.com/v1/chat/completions"

----------------------------------------------------------------------------
(* State.                                                                  *)
(*   secrets  context.secrets: a function from secret names to values      *)
(*   inv      one record per invocation slot: the handler's position (pc), *)
(*            its local variables, its HTTP request and reply in flight,   *)
(*            and the host calls it has issued so far                      *)

VARIABLES secrets, inv

vars == <<secrets, inv>>

\* A slot in which no command has run yet.
Idle ==
    [ cmd          |-> "none",
      pc           |-> "idle",
      editor       |-> FALSE,      \* vscode.window.activeTextEditor is set
      code         |-> Undefined,  \* editor.document.getText(editor.selection)
      userQuery    |-> Undefined,
      apiKey       |-> Undefined,  \* result of secrets.get
      entered      |-> Undefined,  \* result of storeApiKey's input box
      response     |-> Undefined,  \* debuggingResponse / explanation
      pick         |-> Undefined,
      request      |-> Undefined,  \* axios.post on its way to the service
      reply        |-> Undefined,  \* outcome on its way back
      hung         |-> FALSE,      \* the service will never answer
      shown        |-> << >>,      \* showInformationMessage calls
      spoken       |-> << >>,      \* say.speak calls
      inputPrompts |-> << >>,      \* showInputBox calls
      secretOps    |-> << >>,      \* secrets.get / secrets.store calls
      posts        |-> 0,          \* axios.post calls
      quickPicks   |-> 0 ]         \* showQuickPick calls

\* secrets.get(name)
SecretsGet(name) == IF name \in DOMAIN secrets THEN Some(secrets[name]) ELSE Undefined

\* secrets.store(name, value)
SecretsStore(name, value) ==
    [n \in DOMAIN secrets \cup {name} |-> IF n = name THEN value ELSE secrets[n]]

NoSecrets == [n \in {} |-> ""]

Init ==
    /\ secrets \in {NoSecrets} \cup { [n \in {SecretName} |-> k] : k \in Keys }
    /\ inv = [i \in Invocations |-> Idle]

\* The command starts in slot i; r holds what it has done at its first
\* suspension point (or at its end).
Start(i, c, r) ==
    /\ inv[i].pc \in {"idle", "done"}
    /\ inv' = [inv EXCEPT ![i] = Merge(Merge(Idle, [cmd |-> c]), r)]

\* The handler in slot i resumes and runs to its next suspension point.
Resume(i, r) == inv' = [inv EXCEPT ![i] = Merge(inv[i], r)]

----------------------------------------------------------------------------
(* audio-debugger.readAloud: synchronous, one step.                        *)

\* readTextAloud(text): say.speak(text, null, 1.0, callback)
ReadTextAloud(text) == <<text>>

ReadAloud(i) ==
    /\ \E ed \in BOOLEAN :
        IF ~ed
        THEN Start(i, "readAloud",
                   [editor |-> FALSE, shown |-> <<NoEditorMsg>>, pc |-> "done"])
        ELSE \E sel \in Selections :
                Start(i, "readAloud",
                      [editor |-> TRUE, code |-> Some(sel),
                       spoken |-> ReadTextAloud(Str(sel)), pc |-> "done"])
    /\ UNCHANGED secrets

----------------------------------------------------------------------------
(* audio-debugger.aiDebugging                                              *)

\* AiDebugging without the `if (!editor)` return.
AiDebuggingNoEditorCheck(i) ==
    /\ \E ed \in BOOLEAN :
        Start(i, "aiDebugging",
              [editor |-> ed, inputPrompts |-> <<QueryPrompt>>, pc |-> "awaitQuery"])
    /\ UNCHANGED secrets

\* Up to `await vscode.window.showInputBox(...)`.
AiDebugging(i) ==
    /\ \E ed \in BOOLEAN :
        IF ~ed
        THEN Start(i, "aiDebugging",
                   [editor |-> FALSE, shown |-> <<NoEditorMsg>>, pc |-> "done"])
        ELSE Start(i, "aiDebugging",
                   [editor |-> TRUE, inputPrompts |-> <<QueryPrompt>>,
                    pc |-> "awaitQuery"])
    /\ UNCHANGED secrets

\* The input box resolves; up to `await secrets.get('openAIKey')` in
\* getOpenAIDebugging.
AiDebuggingQuery(i) ==
    /\ inv[i].pc = "awaitQuery"
    /\ \E q \in QueryInputs :
        IF ~Truthy(q)
        THEN Resume(i, [userQuery |-> q,
                        shown |-> Append(inv[i].shown, NoQueryMsg),
                        pc |-> "done"])
        ELSE \E sel \in Selections :
                Resume(i, [userQuery |-> q, code |-> Some(sel),
                           secretOps |-> Append(inv[i].secretOps, "get"),
                           pc |-> "awaitGet"])
    /\ UNCHANGED secrets

----------------------------------------------------------------------------
(* audio-debugger.aiExplanation                                            *)

\* Up to `await secrets.get('openAIKey')` in getOpenAIExplanation.
AiExplanation(i) ==
    /\ \E ed \in BOOLEAN :
        IF ~ed
        THEN Start(i, "aiExplanation",
                   [editor |-> FALSE, shown |-> <<NoEditorMsg>>, pc |-> "done"])
        ELSE \E sel \in Selections :
                IF Trim(sel) = << >>
                THEN Start(i, "aiExplanation",
                           [editor |-> TRUE, code |-> Some(sel),
                            shown |-> <<NoCodeMsg>>, pc |-> "done"])
                ELSE Start(i, "aiExplanation",
                           [editor |-> TRUE, code |-> Some(sel),
                            secretOps |-> <<"get">>, pc |-> "awaitGet"])
    /\ UNCHANGED secrets

----------------------------------------------------------------------------
(* The completion client: request construction.                            *)

DebuggingSystemPrompt ==
    "You are a helpful assistant capable of providing debugging assistance and code fixes."

ExplanationSystemPrompt == "You are a helpful assistant."

Model == "gpt-3.5-turbo"

DebuggingData(code, query) ==
    [ model    |-> Model,
      messages |-> << [role |-> "system", content |-> DebuggingSystemPrompt],
                      [role |-> "user",
                       content |-> query \o "\nHere is the code:\n" \o code] >> ]

\* ExplanationData with the system and the user message in the other order.
ExplanationDataUserFirst(code) ==
    [ model    |-> Model,
      messages |-> << [role |-> "user",
                       content |-> "Explain what is happening in this code:\n" \o code],
                      [role |-> "system", content |-> ExplanationSystemPrompt] >> ]

ExplanationData(code) ==
    [ model    |-> Model,
      messages |-> << [role |-> "system", content |-> ExplanationSystemPrompt],
                      [role |-> "user",
                       content |-> "Explain what is happening in this code:\n" \o code] >> ]

DebuggingHeaders(apiKey) ==
    [n \in {"Authorization", "Content-Type"} |->
        IF n = "Authorization" THEN "Bearer " \o apiKey ELSE "application/json"]

ExplanationHeaders(apiKey) ==
    [n \in {"Authorization"} |-> "Bearer  " \o apiKey]

\* `if (!apiKey)`
KeyMissing(apiKey) == ~Truthy(apiKey)

\* GetOpenAIDebugging that waits until no other request is outstanding.
GetOpenAIDebuggingSerialized(i) ==
    /\ inv[i].pc = "awaitGet"
    /\ inv[i].cmd = "aiDebugging"
    /\ \A j \in Invocations : inv[j].pc # "awaitPost"
    /\ LET apiKey == SecretsGet(SecretName) IN
        IF KeyMissing(apiKey)
        THEN Resume(i, [apiKey |-> apiKey,
                        inputPrompts |-> Append(inv[i].inputPrompts, KeyPrompt),
                        pc |-> "awaitKey"])
        ELSE Resume(i, [apiKey |-> apiKey,
                        request |-> Some([url |-> Endpoint,
                                          data |-> DebuggingData(Str(inv[i].code[1]),
                                                                 inv[i].userQuery[1]),
                                          headers |-> DebuggingHeaders(apiKey[1])]),
                        posts |-> inv[i].posts + 1,
                        pc |-> "awaitPost"])
    /\ UNCHANGED secrets

\* secrets.get resolves in getOpenAIDebugging; up to the input box of
\* storeApiKey or up to `await axios.post(...)`.  The value is the one the
\* store holds when the call resolves; the code from there to the next
\* await runs without interruption.
GetOpenAIDebugging(i) ==
    /\ inv[i].pc = "awaitGet"
    /\ inv[i].cmd = "aiDebugging"
    /\ LET apiKey == SecretsGet(SecretName) IN
        IF KeyMissing(apiKey)
        THEN Resume(i, [apiKey |-> apiKey,
                        inputPrompts |-> Append(inv[i].inputPrompts, KeyPrompt),
                        pc |-> "awaitKey"])
        ELSE Resume(i, [apiKey |-> apiKey,
                        request |-> Some([url |-> Endpoint,
                                          data |-> DebuggingData(Str(inv[i].code[1]),
                                                                 inv[i].userQuery[1]),
                                          headers |-> DebuggingHeaders(apiKey[1])]),
                        posts |-> inv[i].posts + 1,
                        pc |-> "awaitPost"])
    /\ UNCHANGED secrets

\* secrets.get resolves in getOpenAIExplanation.
GetOpenAIExplanation(i) ==
    /\ inv[i].pc = "awaitGet"
    /\ inv[i].cmd = "aiExplanation"
    /\ LET apiKey == SecretsGet(SecretName) IN
        IF KeyMissing(apiKey)
        THEN Resume(i, [apiKey |-> apiKey,
                        inputPrompts |-> Append(inv[i].inputPrompts, KeyPrompt),
                        pc |-> "awaitKey"])
        ELSE Resume(i, [apiKey |-> apiKey,
                        request |-> Some([url |-> Endpoint,
                                          data |-> ExplanationData(Str(inv[i].code[1])),
                                          headers |-> ExplanationHeaders(apiKey[1])]),
                        posts |-> inv[i].posts + 1,
                        pc |-> "awaitPost"])
    /\ UNCHANGED secrets

----------------------------------------------------------------------------
(* storeApiKey, and the return of the placeholder to the command handler,  *)
(* which calls presentResponseOptions: up to `await showQuickPick(...)`.   *)

\* StoreApiKeySecrets with `if (apiKey !== undefined)` for `if (apiKey)`.
StoreApiKeySecretsDefined(entered) ==
    IF entered # Undefined THEN SecretsStore(SecretName, entered[1]) ELSE secrets

\* The secret store after storeApiKey's input box resolved with `entered`.
StoreApiKeySecrets(entered) ==
    IF Truthy(entered) THEN SecretsStore(SecretName, entered[1]) ELSE secrets

\* StoreApiKey that goes on to send the request once a key was entered.
StoreApiKeyThenPost(i) ==
    /\ inv[i].pc = "awaitKey"
    /\ \E entered \in KeyInputs :
        /\ secrets' = StoreApiKeySecrets(entered)
        /\ IF Truthy(entered)
           THEN Resume(i, [entered |-> entered,
                           secretOps |-> Append(inv[i].secretOps, "store"),
                           request |-> Some([url |-> Endpoint,
                                             data |-> ExplanationData(Str(inv[i].code[1])),
                                             headers |-> DebuggingHeaders(entered[1])]),
                           posts |-> inv[i].posts + 1,
                           pc |-> "awaitPost"])
           ELSE Resume(i, [entered |-> entered,
                           response |-> Some(MissingKeyResult),
                           quickPicks |-> inv[i].quickPicks + 1,
                           pc |-> "awaitPick"])

StoreApiKey(i) ==
    /\ inv[i].pc = "awaitKey"
    /\ \E entered \in KeyInputs :
        /\ secrets' = StoreApiKeySecrets(entered)
        /\ Resume(i, [entered |-> entered,
                      secretOps |-> IF Truthy(entered)
                                    THEN Append(inv[i].secretOps, "store")
                                    ELSE inv[i].secretOps,
                      response |-> Some(MissingKeyResult),
                      quickPicks |-> inv[i].quickPicks + 1,
                      pc |-> "awaitPick"])

----------------------------------------------------------------------------
(* The remote completion service.                                          *)

RemoteReplies(i) ==
    /\ inv[i].pc = "awaitPost"
    /\ inv[i].request # Undefined
    /\ ~inv[i].hung
    /\ \E r \in Replies :
        Resume(i, [request |-> Undefined, reply |-> Some(r)])
    /\ UNCHANGED secrets

\* The call will never complete.
RemoteHangs(i) ==
    /\ inv[i].pc = "awaitPost"
    /\ inv[i].request # Undefined
    /\ ~inv[i].hung
    /\ Resume(i, [hung |-> TRUE])
    /\ UNCHANGED secrets

----------------------------------------------------------------------------
(* The completion client: the try block around axios.post.                 *)

\* AxiosRejects of a client that resolves on every status.
AxiosRejectsNetworkOnly(r) == r.kind = "network"

\* axios rejects when there is no response or the status is not 2xx.
AxiosRejects(r) ==
    \/ r.kind = "network"
    \/ ~(r.status >= 200 /\ r.status < 300)

\* `response.data.choices[0].message.content` throws a TypeError.
ExtractThrows(data) ==
    \/ "choices" \notin DOMAIN data
    \/ Len(data.choices) = 0

\* TryPost that reads the last choice instead of the first.
TryPostLastChoice(r) ==
    IF AxiosRejects(r) \/ ExtractThrows(r.data)
    THEN [threw |-> TRUE]
    ELSE [threw |-> FALSE,
          value |-> r.data.choices[Len(r.data.choices)].message.content]

\* The outcome of the try block: an exception, or the returned value.
TryPost(r) ==
    IF AxiosRejects(r) \/ ExtractThrows(r.data)
    THEN [threw |-> TRUE]
    ELSE [threw |-> FALSE, value |-> r.data.choices[1].message.content]

\* try { ... } catch (error) { ... return 'Failed to get debugging help ...' }
DebuggingResult(r) ==
    IF TryPost(r).threw THEN DebuggingFailure ELSE TryPost(r).value

\* try { ... } catch (error) { ... return 'Failed to get explanation ...' }
ExplanationResult(r) ==
    IF TryPost(r).threw THEN ExplanationFailure ELSE TryPost(r).value

\* axios.post settles in getOpenAIDebugging; the handler goes on to
\* presentResponseOptions, up to `await showQuickPick(...)`.
DebuggingPostSettles(i) ==
    /\ inv[i].pc = "awaitPost"
    /\ inv[i].cmd = "aiDebugging"
    /\ inv[i].reply # Undefined
    /\ Resume(i, [reply |-> Undefined,
                  response |-> Some(DebuggingResult(inv[i].reply[1])),
                  quickPicks |-> inv[i].quickPicks + 1,
                  pc |-> "awaitPick"])
    /\ UNCHANGED secrets

\* axios.post settles in getOpenAIExplanation.
ExplanationPostSettles(i) ==
    /\ inv[i].pc = "awaitPost"
    /\ inv[i].cmd = "aiExplanation"
    /\ inv[i].reply # Undefined
    /\ Resume(i, [reply |-> Undefined,
                  response |-> Some(ExplanationResult(inv[i].reply[1])),
                  quickPicks |-> inv[i].quickPicks + 1,
                  pc |-> "awaitPick"])
    /\ UNCHANGED secrets

----------------------------------------------------------------------------
(* presentResponseOptions: the quick pick resolves.                        *)

\* The showInformationMessage calls of the if/else chain.
PresentShown(pick, response) ==
    IF pick \in {Some("Show Text"), Some("Both")} THEN <<response>> ELSE << >>

\* PresentSpoken whose 'Both' branch lacks the say.speak call.
PresentSpokenReadAloudOnly(pick, response) ==
    IF pick = Some("Read Aloud") THEN <<response>> ELSE << >>

\* The say.speak calls of the if/else chain.
PresentSpoken(pick, response) ==
    IF pick \in {Some("Read Aloud"), Some("Both")} THEN <<response>> ELSE << >>

PresentResponseOptions(i) ==
    /\ inv[i].pc = "awaitPick"
    /\ \E pick \in PickInputs :
        Resume(i, [pick |-> pick,
                   shown |-> inv[i].shown \o PresentShown(pick, inv[i].response[1]),
                   spoken |-> inv[i].spoken \o PresentSpoken(pick, inv[i].response[1]),
                   pc |-> "done"])
    /\ UNCHANGED secrets

----------------------------------------------------------------------------

\* One step of slot i.
Step(i) ==
    \/ ReadAloud(i)
    \/ AiDebugging(i)
    \/ AiDebuggingQuery(i)
    \/ AiExplanation(i)
    \/ GetOpenAIDebugging(i)
    \/ GetOpenAIExplanation(i)
    \/ StoreApiKey(i)
    \/ RemoteReplies(i)
    \/ RemoteHangs(i)
    \/ DebuggingPostSettles(i)
    \/ ExplanationPostSettles(i)
    \/ PresentResponseOptions(i)

Next == \E i \in Invocations : Step(i)

Spec == Init /\ [][Next]_vars

----------------------------------------------------------------------------
(* Properties.                                                             *)

AiCommands == {"aiDebugging", "aiExplanation"}

\* The selection of invocation i has been read and is empty or whitespace.
BlankSelection(i) ==
    /\ inv[i].editor
    /\ inv[i].code # Undefined
    /\ \A k \in 1..Len(inv[i].code[1]) : inv[i].code[1][k] \in {" ", "\t", "\n"}

\* C1: a command invoked with an active editor and an empty or
\* whitespace-only selection issues no network request and no speech call,
\* and ends having shown one fixed informational message.
C1_BlankSelectionNoCalls ==
    \A i \in Invocations :
        BlankSelection(i) =>
            /\ inv[i].posts = 0
            /\ inv[i].spoken = << >>
            /\ inv[i].pc = "done" => inv[i].shown = <<"No code selected.">>

\* Invocation i has read the secret store and found no key.
FoundNoKey(i) ==
    /\ inv[i].cmd \in AiCommands
    /\ inv[i].pc \in {"awaitKey", "awaitPick", "done"}
    /\ inv[i].secretOps # << >>
    /\ inv[i].apiKey = Undefined

\* C2: an Explain or Debug invocation that found no key never sends the
\* request, opens the key prompt exactly once, and its completion result is
\* the placeholder string.
C2_NoKeyNoRequest ==
    \A i \in Invocations :
        FoundNoKey(i) =>
            /\ inv[i].posts = 0
            /\ inv[i].request = Undefined
            /\ inv[i].reply = Undefined
            /\ Cardinality({k \in 1..Len(inv[i].inputPrompts) :
                    inv[i].inputPrompts[k] = "Enter your OpenAI API Key"}) = 1
            /\ inv[i].pc # "awaitKey" =>
                    inv[i].response = Some("Please enter your OpenAI API key.")

\* A Debug and an Explain invocation both found no key, had a key entered at
\* the prompt, and ran to their end.
C2_Witness ==
    \E i, j \in Invocations :
        /\ FoundNoKey(i) /\ inv[i].cmd = "aiDebugging" /\ inv[i].pc = "done"
        /\ inv[i].entered = Some("k")
        /\ FoundNoKey(j) /\ inv[j].cmd = "aiExplanation" /\ inv[j].pc = "done"
        /\ inv[j].entered = Some("j")

\* The remote call of reply r failed: no response, a status outside 2xx, or
\* a body without a first choice.
RemoteFailure(r) ==
    \/ r.kind = "network"
    \/ r.status \notin 200..299
    \/ "choices" \notin DOMAIN r.data
    \/ r.data.choices = << >>

\* Invocation i receives the outcome of its remote call in this step.
Settles(i) ==
    /\ inv[i].pc = "awaitPost"
    /\ inv[i].reply # Undefined
    /\ inv'[i] # inv[i]

FallbackOf(c) ==
    IF c = "aiDebugging"
    THEN "Failed to get debugging help from OpenAI."
    ELSE "Failed to get explanation from OpenAI."

\* C3: when the remote call fails, the completion result is the mode's fixed
\* fallback string and the handler goes on to the presenter.
C3_FailureGivesFallback ==
    [][\A i \in Invocations :
        Settles(i) /\ RemoteFailure(inv[i].reply[1]) =>
            /\ inv'[i].response = Some(FallbackOf(inv[i].cmd))
            /\ inv'[i].pc = "awaitPick"]_vars

\* A Debug and an Explain invocation both hold their fallback string.
C3_Witness ==
    \E i, j \in Invocations :
        /\ inv[i].cmd = "aiDebugging"
        /\ inv[i].response = Some("Failed to get debugging help from OpenAI.")
        /\ inv[j].cmd = "aiExplanation"
        /\ inv[j].response = Some("Failed to get explanation from OpenAI.")

\* The texts that the step adds to log f of invocation i.
Added(i, f) ==
    { inv'[i][f][k] : k \in (Len(inv[i][f]) + 1)..Len(inv'[i][f]) }

\* C4: when the remote call succeeds, the completion result is the content
\* of the first choice's message, and every text the presenter then shows
\* or speaks is that result.
C4_SuccessVerbatim ==
    [][\A i \in Invocations :
        /\ Settles(i) /\ ~RemoteFailure(inv[i].reply[1]) =>
            /\ inv'[i].response =
                    Some(inv[i].reply[1].data.choices[1].message.content)
            /\ inv'[i].pc = "awaitPick"
        /\ inv[i].pc = "awaitPick" /\ inv'[i].pc = "done" =>
            /\ inv'[i].response = inv[i].response
            /\ Added(i, "shown") \cup Added(i, "spoken") \subseteq {inv[i].response[1]}
            /\ inv'[i].pick # Undefined =>
                    Added(i, "shown") \cup Added(i, "spoken") # {}]_vars

\* An invocation got the first choice "a" of a successful call, and it was
\* both shown and spoken.
C4_Witness ==
    \E i \in Invocations :
        /\ inv[i].cmd \in AiCommands
        /\ inv[i].pc = "done"
        /\ inv[i].response = Some("a")
        /\ inv[i].shown = <<"a">>
        /\ inv[i].spoken = <<"a">>

\* C5: the presenter dispatches by the pick: 'Show Text' one display call,
\* 'Read Aloud' one speech call, 'Both' one of each with the same text, a
\* dismissed pick neither.
C5_PresenterDispatch ==
    \A i \in Invocations :
        inv[i].pc = "done" /\ inv[i].quickPicks = 1 =>
            LET r == inv[i].response[1] IN
            /\ inv[i].pick = Some("Show Text") =>
                    inv[i].shown = <<r>> /\ inv[i].spoken = << >>
            /\ inv[i].pick = Some("Read Aloud") =>
                    inv[i].shown = << >> /\ inv[i].spoken = <<r>>
            /\ inv[i].pick = Some("Both") =>
                    inv[i].shown = <<r>> /\ inv[i].spoken = <<r>>
            /\ inv[i].pick = Undefined =>
                    inv[i].shown = << >> /\ inv[i].spoken = << >>

\* The presenter ran with 'Both' in one invocation and was dismissed in
\* another.
C5_Witness ==
    \E i, j \in Invocations :
        /\ inv[i].pc = "done" /\ inv[i].quickPicks = 1 /\ inv[i].pick = Some("Both")
        /\ inv[j].pc = "done" /\ inv[j].quickPicks = 1 /\ inv[j].pick = Undefined

\* The key prompt of invocation i resolves in this step.
KeyPromptResolves(i) == inv[i].pc = "awaitKey" /\ inv'[i].pc # "awaitKey"

\* C6: the key prompt writes the secret store only when a non-empty value
\* was entered, and then stores that value under 'openAIKey'; otherwise the
\* store is unchanged.  Nothing else writes the store.
C6_StoreOnlyEntered ==
    [][/\ \A i \in Invocations :
            KeyPromptResolves(i) =>
                LET v == inv'[i].entered IN
                IF v # Undefined /\ v[1] # ""
                THEN /\ DOMAIN secrets' = DOMAIN secrets \cup {"openAIKey"}
                     /\ secrets'["openAIKey"] = v[1]
                     /\ \A n \in DOMAIN secrets \ {"openAIKey"} : secrets'[n] = secrets[n]
                ELSE secrets' = secrets
       /\ secrets' # secrets => \E i \in Invocations : KeyPromptResolves(i)]_vars

\* One key prompt stored the entered key "j"; another was answered with the
\* empty string and left the store as it was.
C6_Witness ==
    \E i, j \in Invocations :
        /\ inv[i].entered = Some("j")
        /\ inv[j].entered = Some("")
        /\ inv[j].pc = "awaitPick"
        /\ secrets = [n \in {"openAIKey"} |-> "j"]

\* C7: every request in flight carries exactly two messages, a system
\* message followed by a user message whose content is the mode's
\* instruction text with the selected code (and the query, in Debug mode).
C7_TwoMessages ==
    \A i \in Invocations :
        inv[i].request # Undefined =>
            LET m == inv[i].request[1].data.messages
                code == Str(inv[i].code[1])
            IN  /\ Len(m) = 2
                /\ m[1].role = "system"
                /\ m[2].role = "user"
                /\ inv[i].cmd = "aiDebugging" =>
                        m[2].content = inv[i].userQuery[1] \o "\nHere is the code:\n" \o code
                /\ inv[i].cmd = "aiExplanation" =>
                        m[2].content = "Explain what is happening in this code:\n" \o code

\* A Debug and an Explain request are in flight.
C7_Witness ==
    \E i, j \in Invocations :
        /\ inv[i].cmd = "aiDebugging" /\ inv[i].request # Undefined
        /\ inv[j].cmd = "aiExplanation" /\ inv[j].request # Undefined

\* C8: every request carries, when it is sent, the Authorization header
\* 'Bearer ' followed by the key that the secret store holds.
C8_BearerStoredKey ==
    [][\A i \in Invocations :
        inv'[i].posts = inv[i].posts + 1 =>
            inv'[i].request[1].headers["Authorization"] =
                "Bearer " \o secrets["openAIKey"]]_vars

\* C9: a command invoked without an active editor shows the message and
\* ends: no input prompt, no secret-store access, no request, no quick pick,
\* no speech.
C9_NoEditorAborts ==
    \A i \in Invocations :
        inv[i].cmd # "none" /\ ~inv[i].editor =>
            /\ inv[i].pc = "done"
            /\ inv[i].shown = <<"No editor is active">>
            /\ inv[i].inputPrompts = << >>
            /\ inv[i].secretOps = << >>
            /\ inv[i].posts = 0
            /\ inv[i].request = Undefined
            /\ inv[i].quickPicks = 0
            /\ inv[i].spoken = << >>

\* A Debug and an Explain invocation both ended for want of an editor.
C9_Witness ==
    \E i, j \in Invocations :
        /\ inv[i].cmd = "aiDebugging" /\ ~inv[i].editor /\ inv[i].pc = "done"
        /\ inv[j].cmd = "aiExplanation" /\ ~inv[j].editor /\ inv[j].pc = "done"

\* C10: an invocation whose remote call never completes stays suspended on
\* it and never reaches the presenter, and every other invocation always
\* has a next step it can take.
C10_HungBlocksNobody ==
    \A i \in Invocations :
        inv[i].hung =>
            /\ inv[i].pc = "awaitPost"
            /\ inv[i].quickPicks = 0
            /\ \A j \in Invocations \ {i} : ~inv[j].hung => ENABLED Step(j)

\* While one invocation hangs, another has sent its own request, got the
\* answer and been through the presenter.
C10_Witness ==
    \E i, j \in Invocations :
        /\ inv[i].hung
        /\ inv[j].cmd = "aiDebugging"
        /\ inv[j].pc = "done"
        /\ inv[j].posts = 1
        /\ inv[j].spoken = <<"a">>

====
